---- MODULE Spec2Model ----
(***************************************************************************)
(* CurrencySelector: synchronisation of the parent-owned selection         *)
(* (LCHNotional's selectedCurrencies) with the react-hook-form container   *)
(* (fields currencies and selectAllSwitch), in its two variants: the       *)
(* header-checkbox variant (computeAllState) and the switch variant        *)
(* (allSelectedNow).                                                       *)
(*                                                                         *)
(* One render of CurrencySelector is the action Render: it captures the    *)
(* values the effect closures see and decides, by comparing dependency     *)
(* arrays, which of the two effects run.  The effects then run in          *)
(* declaration order, each as one action.  Handlers (user edit, external   *)
(* set, toggle-all, change of options, unrelated parent render) run only   *)
(* between cascades: React runs an event's updates and the effects they    *)
(* trigger to completion before the next event is handled.                 *)
(*                                                                         *)
(* Dependencies are compared as React compares them (Object.is): booleans  *)
(* and numbers by value, arrays by reference.  Array references are kept   *)
(* as three facts: sameRef (the parent's state is the very array useWatch  *)
(* returns), selRefChanged (the selectedCurrencies prop is a new array     *)
(* since the last render) and parentRendered (LCHNotional rendered again,  *)
(* so the options prop is a new array).  The form container is taken to    *)
(* notify its watchers when a field's value changes.                       *)
(*                                                                         *)
(* Two further components are modelled, each under a specification of its  *)
(* own with the other components held still.  LchSpec: LCHNotional's fetch *)
(* effect (two await points, the alive flag), its date filter and its rows *)
(* and columns.  GridSpec: AGGrid's column processing in its three         *)
(* variants, and the v32 variant's onGridReady and sync effects.           *)
(***************************************************************************)
EXTENDS Integers, Sequences, FiniteSets, TLC

\* Size of the currency universe explored.
MaxItems == 2

\* The currency codes LCHNotional offers, in its order (a prefix of the list).
Currencies == <<"AUD", "EUR", "GBP", "JPY", "USD">>

Range(s) == { s[i] : i \in 1..Len(s) }

\* The option lists the parent may supply: prefixes of the currency list.
OptionLists == { SubSeq(Currencies, 1, n) : n \in 0..MaxItems }

\* A selection is a sequence of distinct items.
IsSelection(s) == \A i, j \in 1..Len(s) : s[i] = s[j] => i = j

\* What the multi-select can hold when it offers opts.
SelectionsOf(opts) ==
  { s \in UNION { [1..k -> Range(opts)] : k \in 0..Len(opts) } : IsSelection(s) }

VARIABLES
  variant,             \* "checkbox" or "switch": which CurrencySelector is mounted
  options,             \* the parent's list of available currencies
  selectedCurrencies,  \* the parent's state (External Owner)
  form,                \* the form container's values (Internal Owner)
  rendered,            \* what the last render captured for the effect closures
  todo,                \* the effects of the last render still to run, in order
  sameRef,             \* the parent's state is the array useWatch returns
  selRefChanged,       \* the selectedCurrencies prop changed since the last render
  parentRendered,      \* the parent rendered since the last render of the selector
  event,               \* the last handler that ran
  hist,                \* the last two operations (handlers and effects), latest first
  defaultValues,       \* the form's defaultValues, as given to useForm
  touched,             \* the fields the form marks touched
  dirty,               \* the fields the form marks dirty
  pushes,              \* calls of the parent's setter since the last handler began
  data,                \* LCHNotional: the fetched records
  loading,             \* LCHNotional: the loading state, AGGrid's loading prop
  alive,               \* LCHNotional: the fetch effect's alive flag
  fetchPc,             \* LCHNotional: where the fetch effect's async function stands
  setterLog,           \* LCHNotional: the setters the async function has called
  watchedStartDate,    \* LCHNotional: the form's startDate
  watchedEndDate,      \* LCHNotional: the form's endDate
  gridVariant,         \* AGGrid: which AGGrid is mounted
  columns,             \* AGGrid: the columns prop
  columnDefs,          \* AGGrid: the column definitions handed to the grid
  quickFilter,         \* AGGrid: the quick filter text state
  gridApiRef,          \* AGGrid: the grid API has been stored
  gridOption,          \* AGGrid: the grid's own 'loading' and 'quickFilterText'
  created,             \* AGGrid: loading and quickFilter of the render that created the grid
  gridTodo,            \* AGGrid: the sync effects of the last render still to run
  calledBeforeReady    \* AGGrid: setGridOption was called with no grid API stored

selectorVars == << variant, form, rendered, todo, sameRef, selRefChanged,
                   parentRendered, event, hist, defaultValues, touched, dirty,
                   pushes >>

lchVars == << data, alive, fetchPc, setterLog, watchedStartDate, watchedEndDate >>

gridVars == << gridVariant, columns, columnDefs, quickFilter, gridApiRef,
               gridOption, created, gridTodo, calledBeforeReady >>

vars == << variant, options, selectedCurrencies, form, rendered, todo, sameRef,
           selRefChanged, parentRendered, event, hist, defaultValues, touched,
           dirty, pushes, data, loading, alive, fetchPc, setterLog,
           watchedStartDate, watchedEndDate, gridVariant, columns, columnDefs,
           quickFilter, gridApiRef, gridOption, created, gridTodo,
           calledBeforeReady >>

\* The count of setter calls is kept up to this number.
MaxPushes == 3

-----------------------------------------------------------------------------
(* Derived flag *)

computeAllStateInclusive(selected, all) ==
  LET total == Len(all)
      sel   == Len(selected)
  IN  [ checked       |-> sel > 0 /\ sel = total,
        indeterminate |-> sel > 0 /\ sel <= total ]

computeAllStateUnguarded(selected, all) ==
  LET total == Len(all)
      sel   == Len(selected)
  IN  [ checked       |-> sel = total,
        indeterminate |-> sel > 0 /\ sel < total ]

computeAllState(selected, all) ==
  LET total == Len(all)
      sel   == Len(selected)
  IN  [ checked       |-> sel > 0 /\ sel = total,
        indeterminate |-> sel > 0 /\ sel < total ]

\* The switch variant's flag.
allSelectedNow(watched, opts) == Len(watched) = Len(opts)

\* Both variants' initial value of selectAllSwitch.
allSelectedInitial(selected, opts) == Len(selected) = Len(opts)

\* The flag an effect derives, in the mounted variant.
DerivedFlag(arr, opts) ==
  IF variant = "checkbox" THEN computeAllState(arr, opts).checked
                          ELSE allSelectedNow(arr, opts)

FlagNeedsWriteAlways(checked, watchedSelectAll) == TRUE

\* The guard of the first effect's flag write.
FlagNeedsWrite(checked, watchedSelectAll) == checked # watchedSelectAll

ToggleSelectionUniverse(nextChecked, opts) ==
  IF nextChecked THEN SubSeq(Currencies, 1, MaxItems) ELSE << >>

ToggleSelectionInverted(nextChecked, opts) ==
  IF nextChecked THEN << >> ELSE opts

\* The selection toggle-all writes and pushes.
ToggleSelection(nextChecked, opts) ==
  IF nextChecked THEN opts ELSE << >>

-----------------------------------------------------------------------------
(* setValue options and the form's markers *)

FlagCorrectionOptionsTouching == [ shouldTouch |-> TRUE, shouldDirty |-> FALSE ]

\* The options of the form-to-parent effect's flag write.
FlagCorrectionOptions == [ shouldTouch |-> FALSE, shouldDirty |-> FALSE ]

\* The options of both writes of the parent-to-form effect.
ReflectOptions == [ shouldTouch |-> FALSE, shouldDirty |-> FALSE ]

\* The options of toggle-all's flag write.
ToggleFlagOptions == [ shouldTouch |-> TRUE, shouldDirty |-> FALSE ]

\* The options of toggle-all's selection write.
ToggleCurrenciesOptions == [ shouldTouch |-> TRUE, shouldDirty |-> TRUE ]

\* setValue marks the field touched when asked to.
MarkTouched(t, name, opts) ==
  IF opts.shouldTouch THEN t \cup {name} ELSE t

\* setValue, when asked to, marks the field dirty if the value differs from
\* its default and clean if it equals it.
MarkDirty(d, name, value, opts) ==
  IF opts.shouldDirty
    THEN IF value = defaultValues[name] THEN d \ {name} ELSE d \cup {name}
    ELSE d

-----------------------------------------------------------------------------
(* Bookkeeping *)

Min(a, b) == IF a < b THEN a ELSE b

Snapshot(f, sel) ==
  [ currencies |-> f.currencies, selectAllSwitch |-> f.selectAllSwitch,
    selected |-> sel ]

OpRec(op, arg, nextChecked, writes, calls, pre, post) ==
  [ op |-> op, arg |-> arg, nextChecked |-> nextChecked, writes |-> writes,
    calls |-> calls, pre |-> pre, post |-> post ]

NoOp == OpRec("none", << >>, FALSE, << >>, << >>,
              Snapshot([currencies |-> << >>, selectAllSwitch |-> FALSE], << >>),
              Snapshot([currencies |-> << >>, selectAllSwitch |-> FALSE], << >>))

Record(rec) == hist' = << rec, hist[1] >>

-----------------------------------------------------------------------------
(* The page and the grid while the selector alone is studied *)

\* A date field that holds no date.
NoDate == 0

PageNotMounted ==
  /\ data = << >>
  /\ alive = FALSE
  /\ fetchPc = "none"
  /\ setterLog = << >>
  /\ watchedStartDate = NoDate
  /\ watchedEndDate = NoDate

GridNotMounted ==
  /\ gridVariant = "none"
  /\ columns = << >>
  /\ columnDefs = << >>
  /\ quickFilter = ""
  /\ gridApiRef = FALSE
  /\ gridOption = [ loading |-> FALSE, quickFilterText |-> "" ]
  /\ created = [ loading |-> FALSE, quickFilter |-> "" ]
  /\ gridTodo = {}
  /\ calledBeforeReady = FALSE

-----------------------------------------------------------------------------
(* Mount *)

Init ==
  /\ variant \in {"checkbox", "switch"}
  /\ options \in OptionLists
  /\ selectedCurrencies \in SelectionsOf(options)
  /\ form = [ currencies      |-> selectedCurrencies,
              selectAllSwitch |-> allSelectedInitial(selectedCurrencies, options) ]
  /\ rendered = [ watchedCurrencies  |-> form.currencies,
                  watchedSelectAll   |-> form.selectAllSwitch,
                  selectedCurrencies |-> selectedCurrencies,
                  options            |-> options ]
  /\ todo = << "formToParent", "parentToForm" >>
  /\ sameRef = FALSE
  /\ selRefChanged = FALSE
  /\ parentRendered = FALSE
  /\ event = [ op |-> "mount", arg |-> selectedCurrencies, nextChecked |-> FALSE,
               from |-> selectedCurrencies ]
  /\ hist = << NoOp, NoOp >>
  /\ defaultValues = form
  /\ touched = {}
  /\ dirty = {}
  /\ pushes = 0
  /\ PageNotMounted
  /\ loading = TRUE
  /\ GridNotMounted

-----------------------------------------------------------------------------
(* Rendering and dependency comparison *)

\* The options entry of the dependency arrays: the array itself in the
\* checkbox variant, its length in the switch variant.
OptionsDepChanged ==
  IF variant = "checkbox" THEN parentRendered
                          ELSE Len(options) # Len(rendered.options)

FormToParentDepsChanged ==
  \/ form.currencies # rendered.watchedCurrencies
  \/ form.selectAllSwitch # rendered.watchedSelectAll
  \/ OptionsDepChanged

ParentToFormDepsChanged ==
  \/ selRefChanged
  \/ OptionsDepChanged

NeedsRender ==
  \/ form.currencies # rendered.watchedCurrencies
  \/ form.selectAllSwitch # rendered.watchedSelectAll
  \/ parentRendered

\* No effect is pending and no render is due.
Settled == todo = << >> /\ ~NeedsRender

Render ==
  /\ UNCHANGED << lchVars, loading, gridVars >>
  /\ todo = << >>
  /\ NeedsRender
  /\ rendered' = [ watchedCurrencies  |-> form.currencies,
                   watchedSelectAll   |-> form.selectAllSwitch,
                   selectedCurrencies |-> selectedCurrencies,
                   options            |-> options ]
  /\ todo' = (IF FormToParentDepsChanged THEN << "formToParent" >> ELSE << >>)
             \o (IF ParentToFormDepsChanged THEN << "parentToForm" >> ELSE << >>)
  /\ selRefChanged' = FALSE
  /\ parentRendered' = FALSE
  /\ UNCHANGED << variant, options, selectedCurrencies, form, sameRef, event, hist,
                  defaultValues, touched, dirty, pushes >>

-----------------------------------------------------------------------------
(* The parent's setter *)

SetSelectedCurrenciesDropped(arg, fromWatch) ==
  UNCHANGED << selectedCurrencies, selRefChanged, parentRendered >>

\* useState's setter: no update when handed the array it already holds;
\* otherwise the parent renders again, with a new options array.
SetSelectedCurrencies(arg, fromWatch) ==
  LET bail == fromWatch /\ sameRef
  IN  /\ selectedCurrencies' = arg
      /\ selRefChanged' = (selRefChanged \/ ~bail)
      /\ parentRendered' = (parentRendered \/ ~bail)

-----------------------------------------------------------------------------
(* The two effects *)

\* "Sync parent when internal selection changes; keep checkbox state aligned"
FormToParentEffect ==
  /\ UNCHANGED << lchVars, loading, gridVars >>
  /\ todo # << >>
  /\ Head(todo) = "formToParent"
  /\ LET arr     == rendered.watchedCurrencies
         checked == DerivedFlag(arr, rendered.options)
         write   == FlagNeedsWrite(checked, rendered.watchedSelectAll)
         newForm == IF write THEN [form EXCEPT !.selectAllSwitch = checked]
                             ELSE form
     IN  /\ SetSelectedCurrencies(arr, TRUE)
         /\ sameRef' = TRUE
         /\ form' = newForm
         /\ Record(OpRec("onInternalChange", arr, FALSE,
                         IF write THEN << "selectAllSwitch" >> ELSE << >>,
                         << arr >>,
                         Snapshot(form, selectedCurrencies),
                         Snapshot(newForm, selectedCurrencies')))
         /\ touched' = IF write
                         THEN MarkTouched(touched, "selectAllSwitch",
                                          FlagCorrectionOptions)
                         ELSE touched
         /\ dirty' = IF write
                       THEN MarkDirty(dirty, "selectAllSwitch", checked,
                                      FlagCorrectionOptions)
                       ELSE dirty
  /\ pushes' = Min(pushes + 1, MaxPushes)
  /\ todo' = Tail(todo)
  /\ UNCHANGED << variant, options, rendered, event, defaultValues >>

\* "If parent updates selectedCurrencies, reflect here"
ParentToFormEffect ==
  /\ UNCHANGED << lchVars, loading, gridVars >>
  /\ todo # << >>
  /\ Head(todo) = "parentToForm"
  /\ LET sel     == rendered.selectedCurrencies
         checked == DerivedFlag(sel, rendered.options)
         newForm == [ currencies |-> sel, selectAllSwitch |-> checked ]
     IN  /\ form' = newForm
         /\ sameRef' = (sameRef /\ sel = form.currencies)
         /\ Record(OpRec("onExternalChange", sel, FALSE,
                         << "currencies", "selectAllSwitch" >>,
                         << >>,
                         Snapshot(form, selectedCurrencies),
                         Snapshot(newForm, selectedCurrencies)))
         /\ touched' = MarkTouched(MarkTouched(touched, "currencies", ReflectOptions),
                                   "selectAllSwitch", ReflectOptions)
         /\ dirty' = MarkDirty(MarkDirty(dirty, "currencies", sel, ReflectOptions),
                               "selectAllSwitch", checked, ReflectOptions)
  /\ todo' = Tail(todo)
  /\ UNCHANGED << variant, options, selectedCurrencies, rendered,
                  selRefChanged, parentRendered, event, defaultValues, pushes >>

-----------------------------------------------------------------------------
(* Handlers *)

\* The user adds or removes items in the multi-select bound to "currencies".
UserSelect(x) ==
  /\ UNCHANGED << lchVars, loading, gridVars >>
  /\ Settled
  /\ x # form.currencies
  /\ form' = [form EXCEPT !.currencies = x]
  /\ sameRef' = FALSE
  /\ event' = [ op |-> "userSelect", arg |-> x, nextChecked |-> FALSE,
                 from |-> form.currencies ]
  /\ Record(OpRec("userSelect", x, FALSE, << "currencies" >>, << >>,
                  Snapshot(form, selectedCurrencies),
                  Snapshot(form', selectedCurrencies)))
  /\ dirty' = MarkDirty(dirty, "currencies", x,
                        [ shouldTouch |-> FALSE, shouldDirty |-> TRUE ])
  /\ pushes' = 0
  /\ UNCHANGED << variant, options, selectedCurrencies, rendered, todo,
                  selRefChanged, parentRendered, defaultValues, touched >>

\* Code outside the selector sets the parent's selection.
ExternalSet(y) ==
  /\ UNCHANGED << lchVars, loading, gridVars >>
  /\ Settled
  /\ selectedCurrencies' = y
  /\ selRefChanged' = TRUE
  /\ parentRendered' = TRUE
  /\ sameRef' = FALSE
  /\ event' = [ op |-> "externalSet", arg |-> y, nextChecked |-> FALSE,
                 from |-> form.currencies ]
  /\ Record(OpRec("externalSet", y, FALSE, << >>, << y >>,
                  Snapshot(form, selectedCurrencies),
                  Snapshot(form, y)))
  /\ pushes' = 0
  /\ UNCHANGED << variant, options, form, rendered, todo, defaultValues, touched,
                  dirty >>

\* onToggleAll (checkbox variant) and handleSwitchChange (switch variant).
ToggleAll(nextChecked) ==
  /\ UNCHANGED << lchVars, loading, gridVars >>
  /\ Settled
  /\ LET sel     == ToggleSelection(nextChecked, rendered.options)
         newForm == [ currencies |-> sel, selectAllSwitch |-> nextChecked ]
     IN  /\ form' = newForm
         /\ SetSelectedCurrencies(sel, FALSE)
         /\ sameRef' = FALSE
         /\ event' = [ op |-> "toggleAll", arg |-> sel, nextChecked |-> nextChecked,
                 from |-> form.currencies ]
         /\ Record(OpRec("toggleAll", sel, nextChecked,
                         IF variant = "checkbox"
                           THEN << "selectAllSwitch", "currencies" >>
                           ELSE << "currencies", "selectAllSwitch" >>,
                         << sel >>,
                         Snapshot(form, selectedCurrencies),
                         Snapshot(newForm, sel)))
         /\ touched' = MarkTouched(MarkTouched(touched, "selectAllSwitch",
                                               ToggleFlagOptions),
                                   "currencies", ToggleCurrenciesOptions)
         /\ dirty' = MarkDirty(MarkDirty(dirty, "selectAllSwitch", nextChecked,
                                         ToggleFlagOptions),
                               "currencies", sel, ToggleCurrenciesOptions)
  /\ pushes' = 1
  /\ UNCHANGED << variant, options, rendered, todo, defaultValues >>

\* The parent supplies another list of available currencies.
ChangeOptions(o) ==
  /\ UNCHANGED << lchVars, loading, gridVars >>
  /\ Settled
  /\ o # options
  /\ options' = o
  /\ parentRendered' = TRUE
  /\ event' = [ op |-> "changeOptions", arg |-> o, nextChecked |-> FALSE,
                 from |-> form.currencies ]
  /\ Record(OpRec("changeOptions", o, FALSE, << >>, << >>,
                  Snapshot(form, selectedCurrencies),
                  Snapshot(form, selectedCurrencies)))
  /\ pushes' = 0
  /\ UNCHANGED << variant, selectedCurrencies, form, rendered, todo, sameRef,
                  selRefChanged, defaultValues, touched, dirty >>

\* The parent renders for a reason of its own (its fetch stored data).
ParentRender ==
  /\ UNCHANGED << lchVars, loading, gridVars >>
  /\ Settled
  /\ parentRendered' = TRUE
  /\ event' = [ op |-> "parentRender", arg |-> << >>, nextChecked |-> FALSE,
                 from |-> form.currencies ]
  /\ Record(OpRec("parentRender", << >>, FALSE, << >>, << >>,
                  Snapshot(form, selectedCurrencies),
                  Snapshot(form, selectedCurrencies)))
  /\ pushes' = 0
  /\ UNCHANGED << variant, options, selectedCurrencies, form, rendered, todo,
                  sameRef, selRefChanged, defaultValues, touched, dirty >>

-----------------------------------------------------------------------------
(* Specifications *)

NextFixed ==
  \/ Render
  \/ FormToParentEffect
  \/ ParentToFormEffect
  \/ \E x \in SelectionsOf(options) : UserSelect(x)
  \/ \E y \in SelectionsOf(options) : ExternalSet(y)
  \/ \E b \in BOOLEAN : ToggleAll(b)
  \/ ParentRender

Next ==
  \/ Render
  \/ FormToParentEffect
  \/ ParentToFormEffect
  \/ \E x \in SelectionsOf(options) : UserSelect(x)
  \/ \E y \in SelectionsOf(options) : ExternalSet(y)
  \/ \E b \in BOOLEAN : ToggleAll(b)
  \/ \E o \in OptionLists : ChangeOptions(o)
  \/ ParentRender

Spec == Init /\ [][Next]_vars

\* available stays as mounted
SpecFixed == Init /\ [][NextFixed]_vars

\* React runs a due render and the effects it scheduled.
FairSpec ==
  /\ Init
  /\ [][Next]_vars
  /\ WF_vars(Render)
  /\ WF_vars(FormToParentEffect)
  /\ WF_vars(ParentToFormEffect)

-----------------------------------------------------------------------------
(* LCHNotional: data fetch, date filter, rows and columns *)

\* Records per fetched payload, and days on the calendar.
MaxRows == 2
MaxDay == 2

\* The form's default startDate.
FirstDay == 1

SelectorNotMounted ==
  /\ variant = "none"
  /\ form = [ currencies |-> << >>, selectAllSwitch |-> FALSE ]
  /\ rendered = [ watchedCurrencies  |-> << >>,
                  watchedSelectAll   |-> FALSE,
                  selectedCurrencies |-> << >>,
                  options            |-> << >> ]
  /\ todo = << >>
  /\ sameRef = FALSE
  /\ selRefChanged = FALSE
  /\ parentRendered = FALSE
  /\ event = [ op |-> "none", arg |-> << >>, nextChecked |-> FALSE, from |-> << >> ]
  /\ hist = << NoOp, NoOp >>
  /\ defaultValues = form
  /\ touched = {}
  /\ dirty = {}
  /\ pushes = 0

\* The currencies the page offers.
currencies == SubSeq(Currencies, 1, MaxItems)

\* One record of the endpoint's answer, for a day.
LCHData(day) ==
  [ k \in {"Date", "Target", "Total"} \cup Range(currencies) |->
      CASE k = "Date"   -> day
        [] k = "Target" -> 10 * day
        [] k = "Total"  -> 100 * day
        [] OTHER        -> 1000 * day + Len(k) ]

\* What res.json() may deliver.
Payloads ==
  UNION { [1..n -> { LCHData(day) : day \in 1..MaxDay }] : n \in 0..MaxRows }

GuardedSetUnguarded(aliveNow, value, current) == value

\* "if (alive) set...(value)": the state after the guarded setter call.
GuardedSet(aliveNow, value, current) == IF aliveNow THEN value ELSE current

\* The setters a guarded call adds to the log.
GuardedLog(aliveNow, name) == IF aliveNow THEN << name >> ELSE << >>

LoadingWhenSettledStuck == TRUE

\* The value the finally block gives loading.
LoadingWhenSettled == FALSE

LchInit ==
  /\ SelectorNotMounted
  /\ GridNotMounted
  /\ options = currencies
  /\ selectedCurrencies = currencies
  /\ data = << >>
  /\ loading = TRUE
  /\ alive = TRUE
  /\ fetchPc = "fetch"
  /\ setterLog = << >>
  /\ watchedStartDate = FirstDay
  /\ watchedEndDate = MaxDay

\* await fetch(...) resolves: the function goes on to await res.json().
FetchResolves ==
  /\ fetchPc = "fetch"
  /\ fetchPc' = "json"
  /\ UNCHANGED << selectorVars, options, selectedCurrencies, gridVars, data, loading,
                  alive, setterLog, watchedStartDate, watchedEndDate >>

\* catch, then finally.
Rejected ==
  /\ fetchPc' = "rejected"
  /\ loading' = GuardedSet(alive, LoadingWhenSettled, loading)
  /\ setterLog' = setterLog \o GuardedLog(alive, "setLoading")
  /\ UNCHANGED << selectorVars, options, selectedCurrencies, gridVars, data, alive,
                  watchedStartDate, watchedEndDate >>

\* await fetch(...) rejects.
FetchRejects ==
  /\ fetchPc = "fetch"
  /\ Rejected

\* await res.json() rejects.
JsonRejects ==
  /\ fetchPc = "json"
  /\ Rejected

\* await res.json() resolves with json: guarded setData, then finally.
JsonResolves(json) ==
  /\ fetchPc = "json"
  /\ fetchPc' = "resolved"
  /\ data' = GuardedSet(alive, json, data)
  /\ loading' = GuardedSet(alive, LoadingWhenSettled, loading)
  /\ setterLog' = setterLog \o GuardedLog(alive, "setData")
                            \o GuardedLog(alive, "setLoading")
  /\ UNCHANGED << selectorVars, options, selectedCurrencies, gridVars, alive,
                  watchedStartDate, watchedEndDate >>

\* The effect's cleanup, run when the page unmounts.
Unmount ==
  /\ alive
  /\ alive' = FALSE
  /\ UNCHANGED << selectorVars, options, selectedCurrencies, gridVars, data, loading,
                  fetchPc, setterLog, watchedStartDate, watchedEndDate >>

\* The currency selector hands the page another selection.
SelectCurrencies(sel) ==
  /\ alive
  /\ sel # selectedCurrencies
  /\ selectedCurrencies' = sel
  /\ UNCHANGED << selectorVars, options, gridVars, lchVars, loading >>

\* The user picks, or clears, the start and end dates.
ChangeDates(start, end) ==
  /\ alive
  /\ << start, end >> # << watchedStartDate, watchedEndDate >>
  /\ watchedStartDate' = start
  /\ watchedEndDate' = end
  /\ UNCHANGED << selectorVars, options, selectedCurrencies, gridVars, data, loading,
                  alive, fetchPc, setterLog >>

inRange(iso) ==
  IF watchedStartDate = NoDate \/ watchedEndDate = NoDate
    THEN TRUE
    ELSE iso >= watchedStartDate /\ iso <= watchedEndDate

InDateRange(d) == inRange(d["Date"])

filteredData == SelectSeq(data, InDateRange)

baseColumns ==
  << [ field |-> "id", headerName |-> "ID" ],
     [ field |-> "date", headerName |-> "Date" ],
     [ field |-> "target", headerName |-> "Target" ] >>

currencyColumns ==
  [ i \in 1..Len(selectedCurrencies) |->
      [ field |-> selectedCurrencies[i], headerName |-> selectedCurrencies[i] ] ]

totalColumn == [ field |-> "total", headerName |-> "Total" ]

\* The page's columns.
pageColumns == baseColumns \o currencyColumns \o << totalColumn >>

RowIdFromZero(idx) == idx - 1

\* The id of the row at (1-based) position idx: the 0-based index plus one.
RowId(idx) == (idx - 1) + 1

\* The page's rows.
rows ==
  [ idx \in 1..Len(filteredData) |->
      [ k \in {"id", "date", "target", "total"} \cup Range(selectedCurrencies) |->
          IF k \in Range(selectedCurrencies) THEN filteredData[idx][k]
          ELSE CASE k = "id"     -> RowId(idx)
                 [] k = "date"   -> filteredData[idx]["Date"]
                 [] k = "target" -> filteredData[idx]["Target"]
                 [] OTHER        -> filteredData[idx]["Total"] ] ]

LchNext ==
  \/ FetchResolves
  \/ FetchRejects
  \/ JsonRejects
  \/ \E json \in Payloads : JsonResolves(json)
  \/ Unmount
  \/ \E sel \in SelectionsOf(options) : SelectCurrencies(sel)
  \/ \E start, end \in {NoDate} \cup 1..MaxDay : ChangeDates(start, end)

LchSpec == LchInit /\ [][LchNext]_vars

\* The request settles, and a settled promise resumes the function.
FairLchSpec ==
  /\ LchInit
  /\ [][LchNext]_vars
  /\ WF_vars(FetchResolves \/ FetchRejects)
  /\ WF_vars(JsonRejects \/ \E json \in Payloads : JsonResolves(json))

-----------------------------------------------------------------------------
(* AGGrid: column processing, onGridReady and the sync effects *)

\* Columns per columns prop.
MaxColumns == 2

\* The values a column's hide may hold, and the texts typed as quick filter.
HideValues == {"undefined", "true", "false"}
FilterTexts == {"", "a", "b"}

\* JavaScript's !!v
ToBoolean(v) == v = "true"

ColumnLists ==
  UNION { [1..n -> [ field : {"id", "date"}, hide : HideValues ]] : n \in 0..MaxColumns }

HideOfAsGiven(c) == ToBoolean(c.hide)

\* hide: c.field === "id" ? true : !!c.hide
HideOf(c) == IF c.field = "id" THEN TRUE ELSE ToBoolean(c.hide)

\* AG Grid v32 variant
columnDefsMemo(cols) ==
  [ i \in 1..Len(cols) |-> [ field |-> cols[i].field, hide |-> HideOf(cols[i]) ] ]

\* GridApi-in-state variant
processedColumns(cols) ==
  [ i \in 1..Len(cols) |-> [ field |-> cols[i].field, hide |-> HideOf(cols[i]) ] ]

\* GridApi-and-ColumnApi variant
processedColumnsColumnApi(cols) ==
  [ i \in 1..Len(cols) |-> [ field |-> cols[i].field, hide |-> HideOf(cols[i]) ] ]

ProcessColumns(cols) ==
  CASE gridVariant = "v32"      -> columnDefsMemo(cols)
    [] gridVariant = "part_000" -> processedColumns(cols)
    [] OTHER                    -> processedColumnsColumnApi(cols)

\* "if (!gridApiRef.current) return"
ApiStored(ref) == ref

\* The sync effects exist in the v32 variant only.
SyncEffects(names) == IF gridVariant = "v32" THEN names ELSE {}

GridInit ==
  /\ SelectorNotMounted
  /\ PageNotMounted
  /\ options = << >>
  /\ selectedCurrencies = << >>
  /\ gridVariant \in {"v32", "part_000", "part_003"}
  /\ columns \in ColumnLists
  /\ columnDefs = ProcessColumns(columns)
  /\ loading \in BOOLEAN
  /\ quickFilter = ""
  /\ gridApiRef = FALSE
  /\ gridOption = [ loading         |-> IF gridVariant = "v32" THEN loading ELSE FALSE,
                    quickFilterText |-> "" ]
  /\ created = [ loading |-> loading, quickFilter |-> quickFilter ]
  /\ gridTodo = SyncEffects({"loading", "quickFilter"})
  /\ calledBeforeReady = FALSE

\* The parent passes another loading.
ChangeLoading(b) ==
  /\ gridTodo = {}
  /\ b # loading
  /\ loading' = b
  /\ gridTodo' = SyncEffects({"loading"})
  /\ UNCHANGED << selectorVars, options, selectedCurrencies, lchVars, gridVariant,
                  columns, columnDefs, quickFilter, gridApiRef, gridOption, created,
                  calledBeforeReady >>

\* The user types in the quick filter box.
ChangeQuickFilter(text) ==
  /\ gridVariant = "v32"
  /\ gridTodo = {}
  /\ text # quickFilter
  /\ quickFilter' = text
  /\ gridTodo' = SyncEffects({"quickFilter"})
  /\ UNCHANGED << selectorVars, options, selectedCurrencies, lchVars, loading,
                  gridVariant, columns, columnDefs, gridApiRef, gridOption, created,
                  calledBeforeReady >>

\* The parent passes other columns.
ChangeColumns(cols) ==
  /\ gridTodo = {}
  /\ cols # columns
  /\ columns' = cols
  /\ columnDefs' = ProcessColumns(cols)
  /\ UNCHANGED << selectorVars, options, selectedCurrencies, lchVars, loading,
                  gridVariant, quickFilter, gridApiRef, gridOption, created, gridTodo,
                  calledBeforeReady >>

\* The effect on [loading].
LoadingEffect ==
  /\ "loading" \in gridTodo
  /\ gridTodo' = gridTodo \ {"loading"}
  /\ IF ApiStored(gridApiRef)
       THEN /\ gridOption' = [gridOption EXCEPT !.loading = loading]
            /\ calledBeforeReady' = (calledBeforeReady \/ ~gridApiRef)
       ELSE UNCHANGED << gridOption, calledBeforeReady >>
  /\ UNCHANGED << selectorVars, options, selectedCurrencies, lchVars, loading,
                  gridVariant, columns, columnDefs, quickFilter, gridApiRef, created >>

\* The effect on [quickFilter].
QuickFilterEffect ==
  /\ "quickFilter" \in gridTodo
  /\ gridTodo' = gridTodo \ {"quickFilter"}
  /\ IF ApiStored(gridApiRef)
       THEN /\ gridOption' = [gridOption EXCEPT !.quickFilterText = quickFilter]
            /\ calledBeforeReady' = (calledBeforeReady \/ ~gridApiRef)
       ELSE UNCHANGED << gridOption, calledBeforeReady >>
  /\ UNCHANGED << selectorVars, options, selectedCurrencies, lchVars, loading,
                  gridVariant, columns, columnDefs, quickFilter, gridApiRef, created >>

ReadyClosureOfCreation == created

\* The values onGridReady closes over.  useCallback lists loading and
\* quickFilter as dependencies, so each render hands the grid a callback
\* holding that render's values; the grid is taken to call the callback it
\* was handed last.
ReadyClosure == [ loading |-> loading, quickFilter |-> quickFilter ]

\* The grid reports ready and calls onGridReady.
GridReady ==
  /\ ~gridApiRef
  /\ gridApiRef' = TRUE
  /\ gridOption' =
       IF gridVariant = "v32"
         THEN [ loading         |-> ReadyClosure.loading,
                quickFilterText |-> IF ReadyClosure.quickFilter # ""
                                      THEN ReadyClosure.quickFilter
                                      ELSE gridOption.quickFilterText ]
         ELSE gridOption
  /\ UNCHANGED << selectorVars, options, selectedCurrencies, lchVars, loading,
                  gridVariant, columns, columnDefs, quickFilter, created, gridTodo,
                  calledBeforeReady >>

GridNext ==
  \/ \E b \in BOOLEAN : ChangeLoading(b)
  \/ \E text \in FilterTexts : ChangeQuickFilter(text)
  \/ \E cols \in ColumnLists : ChangeColumns(cols)
  \/ LoadingEffect
  \/ QuickFilterEffect
  \/ GridReady

GridSpec == GridInit /\ [][GridNext]_vars

\* React runs the effects a render scheduled.
FairGridSpec ==
  /\ GridInit
  /\ [][GridNext]_vars
  /\ WF_vars(LoadingEffect)
  /\ WF_vars(QuickFilterEffect)

-----------------------------------------------------------------------------
(* Properties *)

\* The flag the data model requires for a selection and a list of options.
RequiredFlag(selected, all) == Len(selected) > 0 /\ Len(selected) = Len(all)

\* C1: in every settled state the selectAllSwitch flag equals
\* (selected.length > 0 and selected.length = available.length), also when
\* available is empty.
FlagCorrectWhenSettled ==
  Settled => form.selectAllSwitch = RequiredFlag(form.currencies, options)

\* C2: when the parent-to-form effect runs with a selection element-wise equal
\* to the form's current selection, it writes neither currencies nor the flag.
NoEchoWrites ==
  (hist[1].op = "onExternalChange" /\ hist[1].arg = hist[1].pre.currencies)
    => hist[1].writes = << >>

\* C3: from every state with a render or an effect pending, a settled state,
\* in which no effect writes any more, is eventually reached.
CascadeTerminates == (~Settled) ~> Settled

\* C4: in every settled state the parent's selection equals the form's
\* currencies.
NoDivergenceWhenSettled ==
  Settled => selectedCurrencies = form.currencies

NoDivergenceWitness ==
  /\ Settled
  /\ event.op = "userSelect"
  /\ form.currencies = event.arg
  /\ selectedCurrencies = event.arg
  /\ Len(event.arg) > 0

\* C5: on a non-empty available, toggleAll(true) settles with the selection
\* equal to available, checked true and indeterminate false; toggleAll(false)
\* settles with the empty selection, checked false and indeterminate false.
ToggledOnNonEmpty == event.op = "toggleAll" /\ Len(options) > 0

ToggleAllResult ==
  /\ Settled
  /\ event.op = "toggleAll"
  /\ selectedCurrencies = (IF event.nextChecked THEN options ELSE << >>)
  /\ form.currencies = selectedCurrencies
  /\ form.selectAllSwitch = event.nextChecked
  /\ computeAllState(form.currencies, options)
       = [ checked |-> event.nextChecked, indeterminate |-> FALSE ]

ToggleAllSettlesCorrectly == ToggledOnNonEmpty ~> ToggleAllResult

ToggleAllWitness ==
  /\ ToggleAllResult
  /\ event.nextChecked
  /\ Len(options) = MaxItems
  /\ event.from # options

\* C6: when the form-to-parent effect runs twice in succession with the same
\* selection, the second run leaves the internal selection, the external
\* selection and the flag as the first run left them, and writes no flag.
RanTwiceInSuccession ==
  /\ hist[1].op = "onInternalChange"
  /\ hist[2].op = "onInternalChange"
  /\ hist[1].arg = hist[2].arg

InternalChangeIdempotent ==
  RanTwiceInSuccession =>
    /\ hist[1].post = hist[2].post
    /\ hist[1].writes = << >>

InternalChangeTwiceWitness ==
  /\ RanTwiceInSuccession
  /\ hist[2].writes = << "selectAllSwitch" >>
  /\ hist[2].pre.selected # hist[2].arg

\* C7: for every pair (selected, available) the header is computed from,
\* also with selected longer than available or available empty,
\* computeAllState gives at most one of checked and indeterminate.
TriStateExclusive ==
  \A sel \in {form.currencies, selectedCurrencies} :
    \A all \in {options, rendered.options} :
      ~(computeAllState(sel, all).checked /\ computeAllState(sel, all).indeterminate)

TriStateWitness ==
  /\ Len(form.currencies) > Len(options)
  /\ options = << >>
  /\ hist[1].op = "onInternalChange"
  /\ variant = "checkbox"

\* C8: computeAllState gives checked exactly for a non-empty selection as long
\* as available, indeterminate exactly for a non-empty selection shorter than
\* available, and neither for the empty selection.
ExpectedAllState(n, t) ==
  CASE n = 0          -> [ checked |-> FALSE, indeterminate |-> FALSE ]
    [] n > 0 /\ n < t -> [ checked |-> FALSE, indeterminate |-> TRUE ]
    [] n > 0 /\ n = t -> [ checked |-> TRUE,  indeterminate |-> FALSE ]
    [] OTHER          -> [ checked |-> FALSE, indeterminate |-> FALSE ]

AllStateAsSpecified ==
  \A sel \in {form.currencies, selectedCurrencies} :
    \A all \in {options, rendered.options} :
      computeAllState(sel, all) = ExpectedAllState(Len(sel), Len(all))

AllStateWitness ==
  /\ variant = "checkbox"
  /\ hist[1].op = "onInternalChange"
  /\ Len(form.currencies) > 0
  /\ Len(form.currencies) < Len(options)
  /\ ~form.selectAllSwitch
  /\ computeAllState(form.currencies, options).indeterminate

\* C9: with available fixed and callers supplying subsets of available, every
\* item of the form's selection and of the parent's selection is an element
\* of available.
SelectedSubsetOfAvailable ==
  /\ Range(form.currencies) \subseteq Range(options)
  /\ Range(selectedCurrencies) \subseteq Range(options)

SubsetWitness ==
  /\ event.op = "toggleAll"
  /\ event.nextChecked
  /\ Settled
  /\ Len(options) > 0
  /\ Len(options) < MaxItems
  /\ event.from # options
  /\ form.currencies = options

\* C10: the form-to-parent effect calls the parent's setter exactly once, with
\* the selection it was given, and writes the flag exactly when
\* (selection non-empty and as long as available) differs from the flag.
InternalChangeContract ==
  hist[1].op = "onInternalChange" =>
    /\ hist[1].calls = << hist[1].arg >>
    /\ (hist[1].writes = << "selectAllSwitch" >>)
         <=> (RequiredFlag(hist[1].arg, options) # hist[1].pre.selectAllSwitch)

\* C11: when the parent-to-form effect runs with a selection different from
\* the form's current selection, it leaves the form holding that selection and
\* the flag (selection non-empty and as long as available).
ExternalChangeDiffers ==
  hist[1].op = "onExternalChange" /\ hist[1].arg # hist[1].pre.currencies

ExternalChangeSetsSelectionAndFlag ==
  ExternalChangeDiffers =>
    /\ hist[1].post.currencies = hist[1].arg
    /\ hist[1].post.selectAllSwitch = RequiredFlag(hist[1].arg, options)

\* C12: a run of the parent-to-form effect that changed the form's selection
\* is never followed, as the next operation, by a run of the form-to-parent
\* effect (which calls the parent's setter).
ExternalChangeWroteSelection ==
  hist[2].op = "onExternalChange" /\ hist[2].pre.currencies # hist[2].post.currencies

NoPushAfterExternalChange ==
  ExternalChangeWroteSelection =>
    ~(hist[1].op = "onInternalChange" /\ hist[1].calls # << >>)

\* C13: after the external owner sets a selection y (the form holding the
\* selection x its form-to-parent effect last pushed), the system settles
\* with the form's selection y and the flag computeAllState(y, available).checked.
ExternalSetDone == event.op = "externalSet"

ExternalSetWon ==
  /\ Settled
  /\ form.currencies = event.arg
  /\ form.selectAllSwitch = computeAllState(event.arg, options).checked

LastExternalChangeWins == ExternalSetDone ~> ExternalSetWon

\* C14: when available is empty, no state after toggleAll(true), up to the
\* next handler, has the flag true or a non-empty selection.
ToggledOnOnEmpty ==
  event.op = "toggleAll" /\ event.nextChecked /\ options = << >>

EmptyUniverseGuard ==
  ToggledOnOnEmpty => form.currencies = << >> /\ ~form.selectAllSwitch

\* C15: from a toggleAll up to the next handler, the parent's setter has been
\* called exactly once, the handler's own call and the effects' calls counted.
SinglePushPerToggle == event.op = "toggleAll" => pushes = 1

\* C16: a toggleAll whose requested selection and flag the form already holds
\* writes neither the currencies field nor the flag.
ToggleRequestsCurrentState ==
  /\ hist[1].op = "toggleAll"
  /\ hist[1].pre.currencies = hist[1].arg
  /\ hist[1].pre.selectAllSwitch = hist[1].nextChecked

NoRedundantToggleWrites ==
  ToggleRequestsCurrentState => hist[1].writes = << >>

\* C17: a toggleAll writes the selection first and the flag second, and leaves
\* the form with the flag its selection requires.
ToggleWritesInOrder ==
  hist[1].op = "toggleAll" =>
    /\ hist[1].writes = << "currencies", "selectAllSwitch" >>
    /\ hist[1].post.selectAllSwitch = RequiredFlag(hist[1].post.currencies, options)

\* C18: a run of either effect leaves the touched and dirty markers of both
\* fields as they were; a toggleAll marks both fields touched and marks
\* currencies dirty exactly when the selection it writes differs from the
\* default; no other synchroniser operation changes a marker (a user's own
\* edit of the multi-select changes the dirty marker of currencies).
SilentWritesStep ==
  /\ hist'[1].op \in {"onInternalChange", "onExternalChange"}
       => (touched' = touched /\ dirty' = dirty)
  /\ hist'[1].op = "toggleAll"
       => /\ touched' = {"currencies", "selectAllSwitch"}
          /\ ("currencies" \in dirty') <=> (hist'[1].arg # defaultValues.currencies)
  /\ touched' # touched => hist'[1].op = "toggleAll"
  /\ dirty' # dirty => hist'[1].op \in {"toggleAll", "userSelect"}

SilentWrites == [][SilentWritesStep]_vars

SilentWritesWitness ==
  /\ event.op = "toggleAll"
  /\ hist[2].op = "onInternalChange"
  /\ hist[2].writes = << "selectAllSwitch" >>
  /\ hist[1].op = "onExternalChange"
  /\ touched = {"currencies", "selectAllSwitch"}
  /\ dirty = {"currencies"}

\* C19: after the parent supplies another list of options, the selection
\* staying as it was, the system settles with the flag equal to (selection
\* non-empty and as long as the new list).
OptionsChanged == event.op = "changeOptions"

FlagFollowsOptions ==
  /\ Settled
  /\ form.currencies = event.from
  /\ form.selectAllSwitch = RequiredFlag(form.currencies, options)

FlagRecomputedOnOptionsChange == OptionsChanged ~> FlagFollowsOptions

\* C20: on a non-empty available the switch variant's flag equals the checkbox
\* variant's checked, and after every operation the mounted variant, whichever
\* it is, settles with the same selection (the one the operation asks for) and
\* the same flag.
SelectionAskedFor ==
  IF event.op \in {"userSelect", "externalSet", "toggleAll"}
    THEN event.arg
    ELSE event.from

OperationPending == Len(options) > 0 /\ ~Settled

SameSettledState ==
  /\ Settled
  /\ form.currencies = SelectionAskedFor
  /\ selectedCurrencies = SelectionAskedFor
  /\ form.selectAllSwitch = allSelectedNow(SelectionAskedFor, options)
  /\ form.selectAllSwitch = computeAllState(SelectionAskedFor, options).checked

VariantsAgree == OperationPending ~> SameSettledState

\* C21: once the page has unmounted (alive is false), no step of the fetch
\* effect's function calls setData or setLoading or changes data or loading,
\* whichever await point the unmount fell before or after.
UnmountedFetchStep ==
  ~alive => (data' = data /\ loading' = loading /\ setterLog' = setterLog)

UnmountedFetchIsSilent == [][UnmountedFetchStep]_vars

UnmountedFetchWitness ==
  /\ ~alive
  /\ fetchPc = "resolved"
  /\ loading
  /\ data = << >>
  /\ setterLog = << >>

\* C22: loading is true until the fetch settles; when the fetch has settled
\* with the page still mounted loading is false, after a resolve as after a
\* reject; after a reject data is the empty list; and unless the page unmounts
\* loading eventually becomes false.
LoadingLifecycle ==
  /\ [](fetchPc \in {"fetch", "json"} => loading)
  /\ []((alive /\ fetchPc \in {"resolved", "rejected"}) => ~loading)
  /\ [](fetchPc = "rejected" => data = << >>)
  /\ <>(~alive \/ ~loading)

LoadingLifecycleWitness ==
  /\ alive
  /\ fetchPc = "rejected"
  /\ setterLog = << "setLoading" >>
  /\ ~loading
  /\ data = << >>

\* C25: the rows are the date-filtered records in their order, with ids 1..n;
\* each row carries, besides id, date, target and total, a key for exactly
\* the selected currencies; the columns are ID, Date, Target, one column per
\* selected currency in selection order, and Total: 4 + |selectedCurrencies|.
FilteredInOrder ==
  /\ \A i \in 1..Len(filteredData) : inRange(filteredData[i]["Date"])
  /\ Len(filteredData) = Cardinality({ p \in 1..Len(data) : inRange(data[p]["Date"]) })
  /\ \A i, j \in 1..Len(filteredData) :
       i < j => \E p, q \in 1..Len(data) :
                  p < q /\ data[p] = filteredData[i] /\ data[q] = filteredData[j]

RowsAsClaimed ==
  /\ Len(rows) = Len(filteredData)
  /\ \A i \in 1..Len(rows) :
       /\ rows[i]["id"] = i
       /\ rows[i]["date"] = filteredData[i]["Date"]
       /\ rows[i]["target"] = filteredData[i]["Target"]
       /\ rows[i]["total"] = filteredData[i]["Total"]
       /\ (DOMAIN rows[i]) \ {"id", "date", "target", "total"}
            = Range(selectedCurrencies)
       /\ \A c \in Range(selectedCurrencies) : rows[i][c] = filteredData[i][c]

ColumnsAsClaimed ==
  /\ Len(pageColumns) = 4 + Len(selectedCurrencies)
  /\ [ i \in 1..Len(pageColumns) |-> pageColumns[i].field ]
       = << "id", "date", "target" >> \o selectedCurrencies \o << "total" >>
  /\ [ i \in 1..Len(pageColumns) |-> pageColumns[i].headerName ]
       = << "ID", "Date", "Target" >> \o selectedCurrencies \o << "Total" >>

RowsAndColumns == FilteredInOrder /\ RowsAsClaimed /\ ColumnsAsClaimed

RowsAndColumnsWitness ==
  /\ Len(data) = MaxRows
  /\ Len(rows) > 0
  /\ Len(rows) < Len(data)
  /\ rows[1]["date"] # data[1]["Date"]
  /\ Len(selectedCurrencies) > 0
  /\ Range(selectedCurrencies) # Range(currencies)
  /\ Len(pageColumns) = 4 + Len(selectedCurrencies)

\* C24: in each AGGrid variant the column definitions handed to the grid are
\* as many as the input columns and in their order; the column with field
\* "id" has hide true whatever its input hide, and every other column has
\* hide equal to the truth value of its input hide.
ColumnsProcessed ==
  /\ Len(columnDefs) = Len(columns)
  /\ \A i \in 1..Len(columns) :
       /\ columnDefs[i].field = columns[i].field
       /\ columns[i].field = "id" => columnDefs[i].hide = TRUE
       /\ columns[i].field # "id" => columnDefs[i].hide = (columns[i].hide = "true")

ColumnsProcessedWitness ==
  /\ gridVariant = "part_003"
  /\ gridApiRef
  /\ Len(columns) = MaxColumns
  /\ \E i, j \in 1..Len(columns) :
       /\ i < j
       /\ columns[i] = [ field |-> "date", hide |-> "undefined" ]
       /\ columns[j] = [ field |-> "id", hide |-> "false" ]
       /\ ~columnDefs[i].hide
       /\ columnDefs[j].hide

\* C23: in the v32 variant setGridOption is never called while no grid API
\* is stored, and from every state with the grid ready a state is reached in
\* which the grid's 'loading' and 'quickFilterText' equal the loading prop and
\* the quickFilter state.
GridIsReady == gridVariant = "v32" /\ gridApiRef

GridOptionsInSync ==
  /\ gridOption.loading = loading
  /\ gridOption.quickFilterText = quickFilter

GridOptionsFollow ==
  /\ [](~calledBeforeReady)
  /\ GridIsReady ~> GridOptionsInSync

GridOptionsFollowWitness ==
  /\ GridIsReady
  /\ GridOptionsInSync
  /\ gridTodo = {}
  /\ loading # created.loading
  /\ quickFilter # created.quickFilter

====
